---- MODULE Spec2Model ----
(***************************************************************************)
(* Model of the pugchamp open-authorization service (src/server.js): the   *)
(* single GET / handler, the redis cache it reads and writes, the Steam    *)
(* Web API calls it makes and the alerts it posts.  One action models one  *)
(* uninterrupted segment of the handler's generator: from one `yield` to   *)
(* the next (node runs the code between two yields without interleaving).  *)
(***************************************************************************)
EXTENDS Integers, Sequences, FiniteSets, TLC

VARIABLES
    now,                        \* wall clock, in hours
    cache,                      \* the redis store: key -> [val, expires, exp]
    steam,                      \* what the Steam Web API answers, per account
    reqs,                       \* slot -> the state of the request it handles
    prev,                       \* what the previously completed request did
    hist,                       \* history of the per-check cache entries
    CHECKS,                     \* config 'checks'
    AUTHORIZATIONS,             \* config 'authorizations'
    HOUR_THRESHOLD,             \* config 'hourThreshold'
    AUTHORIZATION_CACHE_TIME,   \* ms(config 'authorizationCacheTime')
    slots,                      \* the request slots in use
    users,                      \* slot -> the `user` query values its callers send
    standings,                  \* the standings an account can have at Steam
    track,                      \* whether `prev` and `calm` are kept
    record                      \* whether `hist` is kept

config == <<CHECKS, AUTHORIZATIONS, HOUR_THRESHOLD, AUTHORIZATION_CACHE_TIME,
            slots, users, standings, track, record>>

vars == <<now, cache, steam, reqs, prev, hist, config>>

-----------------------------------------------------------------------------
(* Bounds *)

MaxTime == 2

MaxChecks == 2

MaxBans == 2

-----------------------------------------------------------------------------
(* Identifiers: new SteamID(user), isValid(), getSteamID64() *)

AccountA == "76561197960265729"

AccountB == "76561197960265730"

\* the raw `user` query values a caller sends; "" is a missing parameter
Users == {"", "not-a-steam-id", "STEAM_0:0:0", "STEAM_0:1:0", AccountA, "[U:1:2]"}

\* new SteamID(user): throws on text that is no Steam2, Steam3 or 64-bit id
SteamIDThrows(user) == user \in {"", "not-a-steam-id"}

\* steamID.isValid(): an individual account with account id 0 is not valid
SteamIDIsValid(user) == user \in {"STEAM_0:1:0", AccountA, "[U:1:2]"}

\* steamID.getSteamID64(): every rendering of an account gives the same id
GetSteamID64(user) ==
    CASE user = "STEAM_0:1:0" -> AccountA
      [] user = AccountA      -> AccountA
      [] user = "[U:1:2]"     -> AccountB
      [] user = "STEAM_0:0:0" -> "76561197960265728"
      [] OTHER                -> "undefined"

-----------------------------------------------------------------------------
(* The redis store *)

NULL == "(nil)"

DecisionKey(steam64) == <<"open-authorization", steam64>>

\* a per-check key that does not name the account
RuleKey_Unscoped(steam64, type) == <<"open-authorization", "", type>>

RuleKey(steam64, type) == <<"open-authorization", steam64, type>>

\* a test for the boolean true, which no redis reply is
Truthy_StrictlyTrue(reply) == reply = "1"

\* `if (cacheResult)` / `!warningResult`: null and '' are falsy
Truthy(reply) == reply \notin {NULL, ""}

\* node_redis sends a boolean argument as the string 'true' or 'false'
RedisString(b) == IF b THEN "true" ELSE "false"

\* the payload's truthiness taken for its value: 'false' is a truthy string
JSONParse_Truthy(text) == [throws |-> FALSE, value |-> text # ""]

\* JSON.parse of a cached payload: [throws, value]
JSONParse(text) ==
    CASE text = "true"  -> [throws |-> FALSE, value |-> TRUE]
      [] text = "false" -> [throws |-> FALSE, value |-> FALSE]
      [] OTHER          -> [throws |-> TRUE, value |-> FALSE]

\* GET key
CacheGet(store, key) == IF key \in DOMAIN store THEN store[key].val ELSE NULL

\* what a GET finds under a key: the entry, or nothing
NoEntry == [hit |-> FALSE, val |-> NULL, expires |-> FALSE, exp |-> 0]

Found(store, key) ==
    IF key \in DOMAIN store
    THEN [hit |-> TRUE, val |-> store[key].val,
          expires |-> store[key].expires, exp |-> store[key].exp]
    ELSE NoEntry

\* SET that leaves an entry that exists as it is (SET ... NX)
CacheSet_KeepsFirst(store, key, val, expires, ttl, ok) ==
    IF ~ok \/ key \in DOMAIN store THEN store
    ELSE [k \in DOMAIN store \cup {key} |->
            IF k = key
            THEN [val |-> val, expires |-> expires,
                  exp |-> IF expires THEN now + ttl ELSE 0]
            ELSE store[k]]

\* SET key val [PX ttl]; ok = FALSE is a write the server never applied
CacheSet(store, key, val, expires, ttl, ok) ==
    IF ~ok THEN store
    ELSE [k \in DOMAIN store \cup {key} |->
            IF k = key
            THEN [val |-> val, expires |-> expires,
                  exp |-> IF expires THEN now + ttl ELSE 0]
            ELSE store[k]]

\* the keys that are still alive at time t
Unexpired(store, t) ==
    [k \in {j \in DOMAIN store : ~store[j].expires \/ store[j].exp > t} |-> store[k]]

-----------------------------------------------------------------------------
(* Configuration records *)

\* ms('1h'), ms('2h'), ...: durations in the model's time unit (one hour)
Ms(text) ==
    CASE text = "1h" -> 1
      [] text = "2h" -> 2
      [] text = "3h" -> 3
      [] OTHER       -> 0

FlagTypes == {"profileNotSetUp", "privateProfile", "lowPlaytime", "impossiblePlaytime",
              "noOwnership", "vacBans", "gameBans", "communityBan", "economyBan"}

\* one entry of config 'checks'; `has` is the set of optional keys it carries
Check(type, ignore, has, authorized, warnInterval) ==
    [type |-> type, ignore |-> ignore, has |-> has,
     authorized |-> authorized, warnInterval |-> warnInterval]

\* one entry of config 'authorizations'; `has` is the set of optional keys
Authorization(user, has, performChecks, authorized, forceChecks, ignoreChecks) ==
    [user |-> user, has |-> has, performChecks |-> performChecks,
     authorized |-> authorized, forceChecks |-> forceChecks,
     ignoreChecks |-> ignoreChecks]

\* _.has(object, key)
Has(object, key) == key \in object.has

\* _.find(AUTHORIZATIONS, authorization => authorization.user === steam64)
FindAuthorization(list, steam64) ==
    LET hits == {n \in 1..Len(list) : list[n].user = steam64}
    IN  IF hits = {}
        THEN [found |-> FALSE,
              rec |-> Authorization("", {}, FALSE, FALSE, {}, {})]
        ELSE [found |-> TRUE,
              rec |-> list[CHOOSE n \in hits : \A m \in hits : n <= m]]

-----------------------------------------------------------------------------
(* Steam Web API responses *)

\* GetPlayerSummaries: usable = the response has players[0]
Summary(usable, steamid, profilestate, visibility) ==
    [usable |-> usable, steamid |-> steamid, profilestate |-> profilestate,
     communityvisibilitystate |-> visibility]

Game(appid, forever, twoWeeks) ==
    [appid |-> appid, playtime_forever |-> forever, playtime_2weeks |-> twoWeeks]

\* GetOwnedGames with appids_filter [440]: present = the response is truthy,
\* hasCount = it has a game_count key (a private profile answers {})
Games(present, hasCount, games) ==
    [present |-> present, hasCount |-> hasCount, game_count |-> Len(games),
     games |-> games]

\* GetPlayerBans: usable = the response has players[0]
Bans(usable, id, vac, gameBans, community, economy) ==
    [usable |-> usable, SteamId |-> id, VACBanned |-> vac,
     NumberOfGameBans |-> gameBans, CommunityBanned |-> community,
     EconomyBan |-> economy]

NoSummary == Summary(FALSE, "", 0, 0)

NoGames == Games(FALSE, FALSE, <<>>)

NoBans == Bans(FALSE, "", FALSE, 0, FALSE, "none")

OtherAccount == "76561197960265999"

\* what a call can return when the API's state is `answer`: the answer, no
\* usable data, or the record of some other account (for the games call, of
\* some other game)
SummaryResponses(answer) == {answer, NoSummary, [answer EXCEPT !.steamid = OtherAccount]}

GamesResponses(answer) == {answer, NoGames, Games(TRUE, TRUE, <<Game(730, 6000, 0)>>)}

BansResponses(answer) == {answer, NoBans, [answer EXCEPT !.SteamId = OtherAccount]}

-----------------------------------------------------------------------------
(* Flags: the Map from check type to {type, detail} *)

Flag(type, text, nums) == [type |-> type, detail |-> [text |-> text, nums |-> nums]]

\* flags.set(type, value)
FlagsSet(flags, flag) == {f \in flags : f.type # flag.type} \cup {flag}

\* flags.has(type)
FlagsHas(flags, type) == \E f \in flags : f.type = type

\* flags.get(type)
FlagsGet(flags, type) == CHOOSE f \in flags : f.type = type

\* moment.duration(minutes, 'minutes').format('h:mm')
FormatHMM(minutes) == <<minutes \div 60, minutes % 60>>

\* moment.duration(minutes, 'minutes').format('w[w] d[d] h:mm')
FormatWDHMM(minutes) ==
    <<minutes \div 10080, (minutes % 10080) \div 1440,
      (minutes % 1440) \div 60, minutes % 60>>

\* `current trade status is ${EconomyBan}`
EconomyDetail(status) ==
    CASE status = "probation" -> "current trade status is probation"
      [] status = "banned"    -> "current trade status is banned"
      [] OTHER                -> "current trade status is"

\* the summary response is unusable or is another account's
SummaryFails(res, steam64) == ~res.usable \/ res.steamid # steam64

SummaryFlags(flags, res) ==
    LET f1 == IF res.profilestate = 0
              THEN FlagsSet(flags, Flag("profileNotSetUp", "profile not set up", <<>>))
              ELSE flags
    IN  IF res.communityvisibilitystate # 3
        THEN FlagsSet(f1, Flag("privateProfile", "has a private profile", <<>>))
        ELSE f1

\* no games response, or a game that is not TF2
GamesFails(res) ==
    \/ ~res.present
    \/ res.hasCount /\ res.game_count > 0 /\ res.games[1].appid # 440

GamesFlags(flags, res, hourThreshold) ==
    IF ~res.hasCount THEN flags
    ELSE IF res.game_count > 0
    THEN LET gameInfo == res.games[1]
             f1 == IF gameInfo.playtime_forever < hourThreshold * 60
                   THEN FlagsSet(flags, Flag("lowPlaytime",
                            "has only h:mm on record for TF2",
                            FormatHMM(gameInfo.playtime_forever)))
                   ELSE flags
         IN  IF gameInfo.playtime_2weeks > 20160
             THEN FlagsSet(f1, Flag("impossiblePlaytime",
                      "has an impossible w d h:mm in the past two weeks for TF2",
                      FormatWDHMM(gameInfo.playtime_2weeks)))
             ELSE f1
    ELSE FlagsSet(flags, Flag("noOwnership", "does not own TF2", <<>>))

\* BansFails without the comparison of the record's SteamId
BansFails_IgnoresAccount(res, steam64) == ~res.usable

\* the bans response is unusable or is another account's
BansFails(res, steam64) == ~res.usable \/ res.SteamId # steam64

BansFlags(flags, res) ==
    LET f1 == IF res.VACBanned
              THEN FlagsSet(flags, Flag("vacBans", "VAC bans on record", <<>>))
              ELSE flags
        f2 == IF res.NumberOfGameBans > 0
              THEN FlagsSet(f1, Flag("gameBans", "n game bans on record",
                                     <<res.NumberOfGameBans>>))
              ELSE f1
        f3 == IF res.CommunityBanned
              THEN FlagsSet(f2, Flag("communityBan", "banned from Steam Community", <<>>))
              ELSE f2
    IN  IF res.EconomyBan # "none"
        THEN FlagsSet(f3, Flag("economyBan", EconomyDetail(res.EconomyBan), <<>>))
        ELSE f3

-----------------------------------------------------------------------------
(* The request handler, app.get('/'), one generator per request *)

\* a slot that handles no request
Idle ==
    [pc |-> "idle", user |-> "", steam64 |-> "",
     playerAuthorization |-> FindAuthorization(<<>>, ""),
     flags |-> {}, authorized |-> TRUE, details |-> <<>>, i |-> 0,
     status |-> 0, sent |-> 0,
     \* what the GET the request waits for will return
     got |-> NoEntry,
     \* history: a GET of the request missed an entry that another request
     \* wrote while the GET was under way
     raced |-> FALSE,
     \* history: the cache took the request's decision entry after any other
\* request's of the account
     last |-> FALSE,
     \* history of the request, for the properties
     path |-> "none", reads |-> {}, writes |-> {}, api |-> {}, alerts |-> <<>>,
     summaryResult |-> NoSummary, gameResult |-> NoGames, bansResult |-> NoBans,
     suppressed |-> {}, first |-> {}, within |-> {}, recent |-> {},
     readFault |-> "ok", error |-> "none", calm |-> "all"]

\* res.sendStatus(code); return
Respond(r, code, path) ==
    [r EXCEPT !.pc = "done", !.status = code, !.sent = @ + 1, !.path = path]

\* Accept without the isValid() test of lines 100-103
Accept_SkipsIsValid(user) ==
    LET r == [Idle EXCEPT !.user = user]
    IN  IF user = "" THEN Respond(r, 403, "invalid")
        ELSE IF SteamIDThrows(user) THEN Respond(r, 403, "invalid")
        ELSE LET steam64 == GetSteamID64(user)
             IN  [r EXCEPT !.pc = "getDecision", !.steam64 = steam64,
                           !.playerAuthorization =
                               FindAuthorization(AUTHORIZATIONS, steam64),
                           !.reads = {DecisionKey(steam64)}]

\* lines 85-107: validate the identifier and look up the override
Accept(user) ==
    LET r == [Idle EXCEPT !.user = user]
    IN  IF user = "" THEN Respond(r, 403, "invalid")
        ELSE IF SteamIDThrows(user) THEN Respond(r, 403, "invalid")
        ELSE IF ~SteamIDIsValid(user) THEN Respond(r, 403, "invalid")
        ELSE LET steam64 == GetSteamID64(user)
             IN  [r EXCEPT !.pc = "getDecision", !.steam64 = steam64,
                           !.playerAuthorization =
                               FindAuthorization(AUTHORIZATIONS, steam64),
                           !.reads = {DecisionKey(steam64)}]

\* no check is ever skipped
Skipped_Never(check, pa) == FALSE

\* lines 242-251: is the check skipped for this player?
Skipped(check, pa) ==
    IF check.ignore
    THEN ~pa.found \/ ~Has(pa.rec, "forceChecks") \/ check.type \notin pa.rec.forceChecks
    ELSE pa.found /\ Has(pa.rec, "ignoreChecks") /\ check.type \in pa.rec.ignoreChecks

\* lines 241-253: the checks of CHECKS that are not skipped for the request's
\* player and are flagged
Triggered(r) ==
    {j \in 1..Len(CHECKS) : /\ ~Skipped(CHECKS[j], r.playerAuthorization)
                            /\ FlagsHas(r.flags, CHECKS[j].type)}

\* postUserAlert(steamID, denied, reason): what the notifier is called with
Alert(steamID, denied, reason) ==
    [steamID |-> steamID, denied |-> denied, reason |-> reason]

\* Finish without the notifier call of lines 279-281
Finish_NoAlert(r, store, setOk) ==
    LET pa == r.playerAuthorization
        authorized == IF pa.found /\ Has(pa.rec, "authorized")
                      THEN pa.rec.authorized ELSE r.authorized
        key == DecisionKey(r.steam64)
    IN  [r |-> Respond([r EXCEPT !.authorized = authorized,
                                 !.writes = @ \cup {key}],
                       IF authorized THEN 200 ELSE 403, "fresh"),
         store |-> CacheSet(store, key, RedisString(authorized), TRUE,
                            AUTHORIZATION_CACHE_TIME, setOk)]

\* Finish with the decision entry written without 'PX': it never expires
Finish_NoExpiry(r, store, setOk) ==
    LET pa == r.playerAuthorization
        authorized == IF pa.found /\ Has(pa.rec, "authorized")
                      THEN pa.rec.authorized ELSE r.authorized
        alerts == IF Len(r.details) > 0
                  THEN Append(r.alerts, Alert(r.steam64, authorized, r.details))
                  ELSE r.alerts
        key == DecisionKey(r.steam64)
    IN  [r |-> Respond([r EXCEPT !.authorized = authorized, !.alerts = alerts,
                                 !.writes = @ \cup {key}],
                       IF authorized THEN 200 ELSE 403, "fresh"),
         store |-> CacheSet(store, key, RedisString(authorized), FALSE, 0, setOk)]

\* Finish with the decision write awaited: a failed write is thrown and caught
Finish_AwaitsSet(r, store, setOk) ==
    LET pa == r.playerAuthorization
        authorized == IF pa.found /\ Has(pa.rec, "authorized")
                      THEN pa.rec.authorized ELSE r.authorized
        alerts == IF Len(r.details) > 0
                  THEN Append(r.alerts, Alert(r.steam64, authorized, r.details))
                  ELSE r.alerts
        key == DecisionKey(r.steam64)
        done == [r EXCEPT !.authorized = authorized, !.alerts = alerts,
                          !.writes = @ \cup {key}]
    IN  [r |-> IF setOk THEN Respond(done, IF authorized THEN 200 ELSE 403, "fresh")
               ELSE Respond(done, 500, "fresh"),
         store |-> CacheSet(store, key, RedisString(authorized), TRUE,
                            AUTHORIZATION_CACHE_TIME, setOk)]

\* Finish without the override of lines 275-277
Finish_NoOverride(r, store, setOk) ==
    LET alerts == IF Len(r.details) > 0
                  THEN Append(r.alerts, Alert(r.steam64, r.authorized, r.details))
                  ELSE r.alerts
        key == DecisionKey(r.steam64)
    IN  [r |-> Respond([r EXCEPT !.alerts = alerts, !.writes = @ \cup {key}],
                       IF r.authorized THEN 200 ELSE 403, "fresh"),
         store |-> CacheSet(store, key, RedisString(r.authorized), TRUE,
                            AUTHORIZATION_CACHE_TIME, setOk)]

\* lines 275-283: override, alert, decision write, response.
\* The value is [r, store]; setOk = FALSE is a decision write that was lost.
Finish(r, store, setOk) ==
    LET pa == r.playerAuthorization
        authorized == IF pa.found /\ Has(pa.rec, "authorized")
                      THEN pa.rec.authorized ELSE r.authorized
        alerts == IF Len(r.details) > 0
                  THEN Append(r.alerts, Alert(r.steam64, authorized, r.details))
                  ELSE r.alerts
        key == DecisionKey(r.steam64)
    IN  [r |-> Respond([r EXCEPT !.authorized = authorized, !.alerts = alerts,
                                 !.writes = @ \cup {key}],
                       IF authorized THEN 200 ELSE 403, "fresh"),
         store |-> CacheSet(store, key, RedisString(authorized), TRUE,
                            AUTHORIZATION_CACHE_TIME, setOk)]

\* RunChecks with the fixed outcomes conjoined: a denial is never undone
RunChecks_Conjoin(r, from, store, setOk) ==
    LET pending == {j \in from..Len(CHECKS) :
                        /\ ~Skipped(CHECKS[j], r.playerAuthorization)
                        /\ FlagsHas(r.flags, CHECKS[j].type)}
    IN  IF pending = {} THEN Finish(r, store, setOk)
        ELSE LET j == CHOOSE n \in pending : \A m \in pending : n <= m
                 check == CHECKS[j]
             IN  [r |-> [r EXCEPT !.pc = "getWarning", !.i = j,
                                  !.authorized = IF Has(check, "authorized")
                                                 THEN @ /\ check.authorized ELSE @,
                                  !.reads = @ \cup {RuleKey(r.steam64, check.type)}],
                  store |-> store]

\* RunChecks with the cache entry looked at first: a check whose entry exists
\* is passed over altogether
RunChecks_SuppressedFirst(r, from, store, setOk) ==
    LET pending == {j \in from..Len(CHECKS) :
                        /\ ~Skipped(CHECKS[j], r.playerAuthorization)
                        /\ FlagsHas(r.flags, CHECKS[j].type)
                        /\ RuleKey(r.steam64, CHECKS[j].type) \notin DOMAIN store}
    IN  IF pending = {} THEN Finish(r, store, setOk)
        ELSE LET j == CHOOSE n \in pending : \A m \in pending : n <= m
                 check == CHECKS[j]
             IN  [r |-> [r EXCEPT !.pc = "getWarning", !.i = j,
                                  !.authorized = IF Has(check, "authorized")
                                                 THEN check.authorized ELSE @,
                                  !.reads = @ \cup {RuleKey(r.steam64, check.type)}],
                  store |-> store]

\* lines 241-260: run the loop over CHECKS from index `from` to its next
\* yield, the cache read of a check that is not skipped and is flagged, or to
\* the end of the handler when there is none.  The value is [r, store].
RunChecks(r, from, store, setOk) ==
    LET pending == {j \in from..Len(CHECKS) :
                        /\ ~Skipped(CHECKS[j], r.playerAuthorization)
                        /\ FlagsHas(r.flags, CHECKS[j].type)}
    IN  IF pending = {} THEN Finish(r, store, setOk)
        ELSE LET j == CHOOSE n \in pending : \A m \in pending : n <= m
                 check == CHECKS[j]
             IN  [r |-> [r EXCEPT !.pc = "getWarning", !.i = j,
                                  !.authorized = IF Has(check, "authorized")
                                                 THEN check.authorized ELSE @,
                                  !.reads = @ \cup {RuleKey(r.steam64, check.type)}],
                  store |-> store]

\* the Steam checks performed whatever the override says
PerformsChecks_Always(pa) == TRUE

\* line 131: are the Steam checks performed for this player?
PerformsChecks(pa) ==
    ~pa.found \/ ~Has(pa.rec, "performChecks") \/ pa.rec.performChecks

\* lines 129-132: after a decision-cache miss
Evaluate(r, store, setOk) ==
    IF PerformsChecks(r.playerAuthorization)
    THEN [r |-> [r EXCEPT !.pc = "getSummary", !.api = @ \cup {"GetPlayerSummaries"}],
          store |-> store]
    ELSE RunChecks(r, 1, store, setOk)

\* Warn without the test of line 262 around the detail: a check whose entry
\* exists is reported again
Warn_Repeats(r, store, warningResult, setOk) ==
    LET check == CHECKS[r.i]
        key == RuleKey(r.steam64, check.type)
        flagInfo == FlagsGet(r.flags, check.type)
    IN  IF ~Truthy(warningResult)
        THEN [r |-> [r EXCEPT !.details = Append(@, flagInfo.detail),
                              !.writes = @ \cup {key}],
              store |-> IF Has(check, "warnInterval") /\ check.warnInterval # "never"
                        THEN CacheSet(store, key, RedisString(FALSE), TRUE,
                                      Ms(check.warnInterval), setOk)
                        ELSE CacheSet(store, key, RedisString(FALSE), FALSE, 0, setOk)]
        ELSE [r |-> [r EXCEPT !.details = Append(@, flagInfo.detail),
                              !.suppressed = @ \cup {check.type}],
              store |-> store]

\* Warn with the detail put at the head of the list
Warn_Prepends(r, store, warningResult, setOk) ==
    LET check == CHECKS[r.i]
        key == RuleKey(r.steam64, check.type)
        flagInfo == FlagsGet(r.flags, check.type)
    IN  IF ~Truthy(warningResult)
        THEN [r |-> [r EXCEPT !.details = <<flagInfo.detail>> \o @,
                              !.writes = @ \cup {key}],
              store |-> IF Has(check, "warnInterval") /\ check.warnInterval # "never"
                        THEN CacheSet(store, key, RedisString(FALSE), TRUE,
                                      Ms(check.warnInterval), setOk)
                        ELSE CacheSet(store, key, RedisString(FALSE), FALSE, 0, setOk)]
        ELSE [r |-> [r EXCEPT !.suppressed = @ \cup {check.type}], store |-> store]

\* lines 262-271: the flagged check's detail and its cache entry
Warn(r, store, warningResult, setOk) ==
    LET check == CHECKS[r.i]
        key == RuleKey(r.steam64, check.type)
        flagInfo == FlagsGet(r.flags, check.type)
    IN  IF ~Truthy(warningResult)
        THEN [r |-> [r EXCEPT !.details = Append(@, flagInfo.detail),
                              !.writes = @ \cup {key}],
              store |-> IF Has(check, "warnInterval") /\ check.warnInterval # "never"
                        THEN CacheSet(store, key, RedisString(FALSE), TRUE,
                                      Ms(check.warnInterval), setOk)
                        ELSE CacheSet(store, key, RedisString(FALSE), FALSE, 0, setOk)]
        ELSE [r |-> [r EXCEPT !.suppressed = @ \cup {check.type}], store |-> store]

-----------------------------------------------------------------------------
(* The Steam Web API's state: what it answers for an account *)

Profile(summary, games, bans) == [summary |-> summary, games |-> games, bans |-> bans]

OwnedGames(forever, twoWeeks) == Games(TRUE, TRUE, <<Game(440, forever, twoWeeks)>>)

\* the standings of an account the model draws from
Profiles(steam64) ==
    {\* in good standing
     Profile(Summary(TRUE, steam64, 1, 3), OwnedGames(120, 20160),
             Bans(TRUE, steam64, FALSE, 0, FALSE, "none")),
     \* VAC banned
     Profile(Summary(TRUE, steam64, 1, 3), OwnedGames(6000, 0),
             Bans(TRUE, steam64, TRUE, 0, FALSE, "none")),
     \* VAC and community banned, under two hours played
     Profile(Summary(TRUE, steam64, 1, 3), OwnedGames(119, 0),
             Bans(TRUE, steam64, TRUE, 0, TRUE, "none")),
     \* does not own the game, community banned
     Profile(Summary(TRUE, steam64, 1, 3), Games(TRUE, TRUE, <<>>),
             Bans(TRUE, steam64, FALSE, 0, TRUE, "none")),
     \* private profile: the games response carries no game_count
     Profile(Summary(TRUE, steam64, 0, 1), Games(TRUE, FALSE, <<>>),
             Bans(TRUE, steam64, FALSE, 0, FALSE, "none")),
     \* more than two weeks played in two weeks, game bans, trade probation
     Profile(Summary(TRUE, steam64, 1, 3), OwnedGames(6000, 20161),
             Bans(TRUE, steam64, FALSE, 2, FALSE, "probation"))}

\* the answers for an account the API has no data on
Unknown == Profile(NoSummary, NoGames, NoBans)

\* those of the standings `stood` that are an account's
Of(stood, steam64) == {p \in stood : p.bans.SteamId = steam64}

Answer(steam64) == IF steam64 \in DOMAIN steam THEN steam[steam64] ELSE Unknown

-----------------------------------------------------------------------------
(* Actions *)

\* history: what has stayed as it was since a request started.  "all": the
\* clock, Steam's answers and the cache's service; "steam": all but the clock;
\* "none": Steam's answers changed, or a call to Steam or to the cache failed.
Disturb(calm, what) ==
    IF what = "clock" THEN (IF calm = "all" THEN "steam" ELSE calm) ELSE "none"

\* history: every request under way, and the one before, saw the event `what`
Disturbed(rs, what) ==
    [s \in DOMAIN rs |-> [rs[s] EXCEPT !.calm = IF track THEN Disturb(@, what) ELSE @]]

DisturbedPrev(p, what) ==
    [p EXCEPT !.calm = IF track THEN Disturb(@, what) ELSE @]

\* history: the request that just ended in slot s
Ended(r) ==
    [exists |-> TRUE, steam64 |-> r.steam64, status |-> r.status,
     path |-> r.path, alerts |-> Len(r.alerts), calm |-> r.calm]

\* client.getAsync(key) is sent: lines 110, 260.  The server's one redis
\* connection (line 23) carries the commands of all requests in the order
\* they are sent, so the GET finds what the SETs sent before it have left.
Issue(r, store) ==
    [r EXCEPT !.got =
        CASE r.pc = "getDecision" -> Found(store, DecisionKey(r.steam64))
          [] r.pc = "getWarning"  -> Found(store, RuleKey(r.steam64, CHECKS[r.i].type))
          [] OTHER                -> NoEntry]

\* a pending GET does not find an entry whose PX time is up at time t
Lapsed(rs, t) ==
    [s \in DOMAIN rs |->
        [rs[s] EXCEPT !.got = IF @.hit /\ @.expires /\ @.exp <= t THEN NoEntry ELSE @]]

\* history: the request in slot s has ended; if the cache took its decision
\* entry, it is the last writer of its account's decision entry.  Kept when
\* more than one request can be under way.
Wrote(rs, s, setOk) ==
    IF Cardinality(slots) > 1 /\ rs[s].path = "fresh" /\ setOk
    THEN [t \in DOMAIN rs |->
            [rs[t] EXCEPT !.last = IF rs[t].steam64 = rs[s].steam64 THEN t = s ELSE @]]
    ELSE rs

\* a request arrives in a free slot: lines 83-110, up to the first yield.
\* `profile` is the standing the account has at Steam from now on.
Request(s, user, profile) ==
    /\ s \in slots
    /\ user \in users[s]
    /\ reqs[s].pc \in {"idle", "done"}
    /\ LET steam64 == GetSteamID64(user)
           changes == steam64 \in DOMAIN steam /\ steam[steam64] # profile
           ended == IF track /\ reqs[s].pc = "done" THEN Ended(reqs[s]) ELSE prev
       IN  /\ steam64 \notin DOMAIN steam => profile = Unknown
           /\ steam64 \in DOMAIN steam => profile \in Of(standings, steam64)
           /\ steam' = IF changes THEN [steam EXCEPT ![steam64] = profile] ELSE steam
           /\ prev' = IF changes THEN DisturbedPrev(ended, "steam") ELSE ended
           /\ reqs' = [IF changes THEN Disturbed(reqs, "steam") ELSE reqs
                          EXCEPT ![s] = Issue(Accept(user), cache)]
    /\ UNCHANGED <<now, cache, hist, config>>

\* catch (err): lines 285-289; `what` is the call whose result threw
Fail(r, what) == Respond([r EXCEPT !.error = what], 500, "error")

\* DecisionReply without the return of line 122: after a hit the status is
\* sent and the handler goes on to evaluate
DecisionReply_NoReturn(s, outcome, setOk) ==
    /\ reqs[s].pc = "getDecision"
    /\ outcome = "malformed" => reqs[s].got.hit
    /\ LET r == reqs[s]
           cacheResult == IF outcome = "malformed" THEN "{"
                          ELSE r.got.val
           hit == /\ outcome # "rejected"
                  /\ Truthy(cacheResult)
                  /\ ~JSONParse(cacheResult).throws
           ran == IF hit
                  THEN Evaluate([r EXCEPT !.status = IF JSONParse(cacheResult).value
                                                     THEN 200 ELSE 403,
                                          !.sent = @ + 1], cache, setOk)
                  ELSE Evaluate([r EXCEPT !.readFault = outcome], cache, setOk)
           next == [ran EXCEPT !.r = Issue(@, ran.store)]
       IN  /\ next.r.path # "fresh" => setOk
           /\ reqs' = Wrote([reqs EXCEPT ![s] = next.r], s, setOk)
           /\ prev' = prev
           /\ cache' = next.store
    /\ UNCHANGED <<now, steam, hist, config>>

\* the decision-cache read returns: lines 110-131.  outcome "rejected" is a
\* failed GET, "malformed" a payload that is not JSON.
DecisionReply(s, outcome, setOk) ==
    /\ reqs[s].pc = "getDecision"
    /\ outcome = "malformed" => reqs[s].got.hit
    /\ LET r == reqs[s]
           cacheResult == IF outcome = "malformed" THEN "{"
                          ELSE r.got.val
           hit == /\ outcome # "rejected"
                  /\ Truthy(cacheResult)
                  /\ ~JSONParse(cacheResult).throws
           ran == IF hit
                  THEN [r |-> Respond(r, IF JSONParse(cacheResult).value
                                         THEN 200 ELSE 403, "hit"),
                        store |-> cache]
                  ELSE Evaluate([r EXCEPT !.readFault = outcome], cache, setOk)
           next == [ran EXCEPT !.r = Issue(@, ran.store)]
           fault == outcome # "ok" \/ (next.r.path = "fresh" /\ ~setOk)
       IN  /\ next.r.path # "fresh" => setOk
           /\ reqs' = Wrote([IF fault THEN Disturbed(reqs, "cache") ELSE reqs
                                EXCEPT ![s] = IF fault /\ track
                                              THEN [next.r EXCEPT !.calm = "none"]
                                              ELSE next.r], s, setOk)
           /\ prev' = IF fault THEN DisturbedPrev(prev, "cache") ELSE prev
           /\ cache' = next.store
    /\ UNCHANGED <<now, steam, hist, config>>

\* GetPlayerSummaries returns: lines 132-161
SummaryReply(s, summaryResult) ==
    /\ reqs[s].pc = "getSummary"
    /\ summaryResult \in SummaryResponses(Answer(reqs[s].steam64).summary)
    /\ LET r == [reqs[s] EXCEPT !.summaryResult = summaryResult]
           fault == summaryResult # Answer(r.steam64).summary
           next == IF SummaryFails(summaryResult, r.steam64)
                   THEN Fail(r, "GetPlayerSummaries")
                   ELSE [r EXCEPT !.pc = "getGames",
                                  !.flags = SummaryFlags(@, summaryResult),
                                  !.api = @ \cup {"GetOwnedGames"}]
       IN  /\ reqs' = [IF fault THEN Disturbed(reqs, "steam") ELSE reqs
                          EXCEPT ![s] = IF fault /\ track
                                        THEN [next EXCEPT !.calm = "none"] ELSE next]
           /\ prev' = IF fault THEN DisturbedPrev(prev, "steam") ELSE prev
    /\ UNCHANGED <<now, cache, steam, hist, config>>

\* GetOwnedGames returns: lines 163-201
GamesReply(s, gameResult) ==
    /\ reqs[s].pc = "getGames"
    /\ gameResult \in GamesResponses(Answer(reqs[s].steam64).games)
    /\ LET r == [reqs[s] EXCEPT !.gameResult = gameResult]
           fault == gameResult # Answer(r.steam64).games
           next == IF GamesFails(gameResult) THEN Fail(r, "GetOwnedGames")
                   ELSE [r EXCEPT !.pc = "getBans",
                                  !.flags = GamesFlags(@, gameResult, HOUR_THRESHOLD),
                                  !.api = @ \cup {"GetPlayerBans"}]
       IN  /\ reqs' = [IF fault THEN Disturbed(reqs, "steam") ELSE reqs
                          EXCEPT ![s] = IF fault /\ track
                                        THEN [next EXCEPT !.calm = "none"] ELSE next]
           /\ prev' = IF fault THEN DisturbedPrev(prev, "steam") ELSE prev
    /\ UNCHANGED <<now, cache, steam, hist, config>>

\* history: the cache keys of the checks that a completed evaluation found
\* flagged
TriggeredKeys(r) == {RuleKey(r.steam64, CHECKS[j].type) : j \in Triggered(r)}

\* the details of all the alerts the request sent
Alerted(r) == UNION {{r.alerts[a].reason[n] : n \in 1..Len(r.alerts[a].reason)} :
                        a \in 1..Len(r.alerts)}

\* history: the flagged checks with a warn interval whose detail the request
\* has alerted
AlertedChecks(r) ==
    {j \in Triggered(r) : /\ Has(CHECKS[j], "warnInterval")
                          /\ FlagsGet(r.flags, CHECKS[j].type).detail \in Alerted(r)}

\* history: an evaluation that completes takes note of the checks it is the
\* first to find flagged, and of those whose detail was alerted less than
\* their warn interval ago
Noted(h, r) ==
    IF record /\ r.path = "fresh"
    THEN [r EXCEPT !.first = {CHECKS[j].type : j \in
                                 {n \in Triggered(r) :
                                     RuleKey(r.steam64, CHECKS[n].type) \notin h.seen}},
                   !.recent = {CHECKS[j].type : j \in
                                 {n \in Triggered(r) :
                                     RuleKey(r.steam64, CHECKS[n].type)
                                         \in DOMAIN h.alerted}}]
    ELSE r

Seen(h, r) ==
    IF record /\ r.path = "fresh"
    THEN [h EXCEPT !.seen = @ \cup TriggeredKeys(r),
                   !.alerted =
                       IF record
                       THEN LET new == {RuleKey(r.steam64, CHECKS[j].type) :
                                           j \in AlertedChecks(r)}
                                intervalOf(k) ==
                                    LET j == CHOOSE n \in AlertedChecks(r) :
                                                 CHECKS[n].type = k[3]
                                    IN  CHECKS[j].warnInterval
                            IN  [k \in DOMAIN @ \cup new |->
                                    IF k \in new
                                    THEN [at |-> now, interval |-> intervalOf(k)]
                                    ELSE @[k]]
                       ELSE @]
    ELSE h

\* GetPlayerBans returns: lines 203-260
BansReply(s, bansResult, setOk) ==
    /\ reqs[s].pc = "getBans"
    /\ bansResult \in BansResponses(Answer(reqs[s].steam64).bans)
    /\ LET r == [reqs[s] EXCEPT !.bansResult = bansResult]
           ran == IF BansFails(bansResult, r.steam64)
                  THEN [r |-> Fail(r, "GetPlayerBans"), store |-> cache]
                  ELSE RunChecks([r EXCEPT !.flags = BansFlags(@, bansResult)],
                                 1, cache, setOk)
           next == [ran EXCEPT !.r = Issue(Noted(hist, @), ran.store)]
           fault == \/ bansResult # Answer(r.steam64).bans
                    \/ (next.r.path = "fresh" /\ ~setOk)
       IN  /\ next.r.path # "fresh" => setOk
           /\ reqs' = Wrote([IF fault THEN Disturbed(reqs, "steam") ELSE reqs
                                EXCEPT ![s] = IF fault /\ track
                                              THEN [next.r EXCEPT !.calm = "none"]
                                              ELSE next.r], s, setOk)
           /\ prev' = IF fault THEN DisturbedPrev(prev, "steam") ELSE prev
           /\ cache' = next.store
           /\ hist' = Seen(hist, next.r)
    /\ UNCHANGED <<now, steam, config>>

\* the per-check cache read returns: lines 260-283 (or the catch at 285)
WarningReply(s, outcome, warnOk, setOk) ==
    /\ reqs[s].pc = "getWarning"
    /\ LET r0 == reqs[s]
           check == CHECKS[r0.i]
           key == RuleKey(r0.steam64, check.type)
           warningResult == r0.got.val
           \* history: was the check's entry written less than its warn
           \* interval ago?
           r == [r0 EXCEPT
                   !.within = IF record /\ key \in DOMAIN hist.pushed
                              THEN @ \cup {check.type} ELSE @,
                   !.raced = @ \/ (outcome = "ok" /\ ~r0.got.hit
                                      /\ key \in DOMAIN cache)]
           warned == Warn(r, cache, warningResult, warnOk)
           ran == IF outcome = "rejected"
                  THEN [r |-> Fail([r EXCEPT !.readFault = outcome], "cache"),
                        store |-> cache]
                  ELSE RunChecks(warned.r, r.i + 1, warned.store, setOk)
           next == [ran EXCEPT !.r = Issue(Noted(hist, @), ran.store)]
           pushes == outcome = "ok" /\ ~Truthy(warningResult)
           fault == \/ outcome # "ok"
                    \/ (pushes /\ ~warnOk)
                    \/ (next.r.path = "fresh" /\ ~setOk)
       IN  /\ ~pushes => warnOk
           /\ next.r.path # "fresh" => setOk
           /\ reqs' = Wrote([IF fault THEN Disturbed(reqs, "cache") ELSE reqs
                                EXCEPT ![s] = IF fault /\ track
                                              THEN [next.r EXCEPT !.calm = "none"]
                                              ELSE next.r], s, setOk)
           /\ prev' = IF fault THEN DisturbedPrev(prev, "cache") ELSE prev
           /\ cache' = next.store
           /\ hist' = Seen(
                  [hist EXCEPT !.pushed = IF record /\ pushes /\ warnOk
                                             /\ Has(check, "warnInterval")
                                             /\ check.warnInterval # "never"
                                          THEN [k \in DOMAIN @ \cup {key} |->
                                                   IF k = key
                                                   THEN [at |-> now,
                                                         interval |-> check.warnInterval]
                                                   ELSE @[k]]
                                          ELSE @],
                  next.r)
    /\ UNCHANGED <<now, steam, config>>

\* an hour passes; redis drops the keys whose PX time is up
Tick ==
    /\ now < MaxTime
    /\ now' = now + 1
    /\ cache' = Unexpired(cache, now + 1)
    /\ reqs' = Disturbed(Lapsed(reqs, now + 1), "clock")
    /\ prev' = DisturbedPrev(prev, "clock")
    /\ hist' = [hist EXCEPT
                   !.pushed =
                       [k \in {j \in DOMAIN @ : now + 1 - @[j].at < Ms(@[j].interval)}
                           |-> @[k]],
                   !.alerted =
                       [k \in {j \in DOMAIN @ :
                                  \/ @[j].interval = "never"
                                  \/ now + 1 - @[j].at < Ms(@[j].interval)}
                           |-> @[k]]]
    /\ UNCHANGED <<steam, config>>

-----------------------------------------------------------------------------
(* Configurations and initial states *)

Deny(type, warnInterval) ==
    Check(type, FALSE, {"authorized", "warnInterval"}, FALSE, warnInterval)

Allow(type) == Check(type, FALSE, {"authorized"}, TRUE, "")

Warning(type, warnInterval) ==
    Check(type, FALSE, {"warnInterval"}, FALSE, warnInterval)

\* orderings of config 'checks' the model draws its prefixes from
CheckLists ==
    {<<Deny("vacBans", "1h"), Allow("communityBan"), Warning("lowPlaytime", "2h")>>,
     <<Allow("communityBan"), Deny("vacBans", "never"),
       Check("impossiblePlaytime", FALSE, {}, FALSE, "")>>,
     <<Warning("lowPlaytime", "2h"), Deny("communityBan", "1h"),
       Deny("noOwnership", "1h")>>,
     <<Check("gameBans", TRUE, {"authorized", "warnInterval"}, FALSE, "1h"),
       Warning("economyBan", "never"), Deny("vacBans", "1h")>>}

Prefixes(list) == {SubSeq(list, 1, n) : n \in 1..(IF MaxChecks < Len(list)
                                                THEN MaxChecks ELSE Len(list))}

Longest(list) == SubSeq(list, 1, IF MaxChecks < Len(list) THEN MaxChecks ELSE Len(list))

\* the entries config 'authorizations' may hold for an account
Overrides(user) ==
    {Authorization(user, {"authorized"}, FALSE, TRUE, {}, {}),
     Authorization(user, {"authorized"}, FALSE, FALSE, {}, {}),
     Authorization(user, {"performChecks"}, FALSE, FALSE, {}, {}),
     Authorization(user, {"performChecks", "authorized"}, FALSE, TRUE, {}, {}),
     Authorization(user, {"performChecks", "authorized"}, FALSE, FALSE, {}, {}),
     Authorization(user, {"forceChecks", "ignoreChecks"}, FALSE, FALSE,
                   {"gameBans"}, {"vacBans"})}

\* the orderings whose checks the override `o` bears on
Overridden(o) ==
    {list \in CheckLists :
        \/ list[1].type = "vacBans" /\ ~Has(o, "forceChecks")
        \/ list[1].type \in {"vacBans", "gameBans", "communityBan"}
              /\ Has(o, "forceChecks")}

\* the configurations: every prefix of every ordering without overrides, and
\* the longest prefixes of some with each override of the account
Configs(user) ==
    {[checks |-> c, authorizations |-> <<>>] :
        c \in UNION {Prefixes(list) : list \in CheckLists}}
    \cup UNION {{[checks |-> Longest(list), authorizations |-> <<o>>] :
                    list \in Overridden(o)} : o \in Overrides(user)}

NoPrev ==
    [exists |-> FALSE, steam64 |-> "", status |-> 0, path |-> "none", alerts |-> 0,
     calm |-> "none"]

Slots == {1, 2}

InitOf(slotSet, userOf, accounts, tracked, recorded, configs, stood) ==
    /\ now = 0
    /\ cache = <<>>
    /\ standings = stood
    /\ steam \in [accounts -> stood]
    /\ \A a \in accounts : steam[a] \in Of(stood, a)
    /\ reqs = [s \in Slots |-> Idle]
    /\ prev = NoPrev
    /\ hist = [seen |-> {}, pushed |-> <<>>, alerted |-> <<>>]
    /\ \E c \in configs :
          /\ CHECKS = c.checks
          /\ AUTHORIZATIONS = c.authorizations
    /\ HOUR_THRESHOLD = 2
    /\ AUTHORIZATION_CACHE_TIME = Ms("1h")
    /\ slots = slotSet
    /\ users = userOf
    /\ track = tracked
    /\ record = recorded

\* accounts in any of the standings
InitWith(slotSet, userSet, accounts, tracked, recorded, configs) ==
    InitOf(slotSet, [s \in Slots |-> userSet], accounts, tracked, recorded, configs,
           UNION {Profiles(a) : a \in accounts})

\* requests handled one at a time
Init == InitWith({1}, {"", "not-a-steam-id", "STEAM_0:0:0", "STEAM_0:1:0"},
                 {AccountA}, FALSE, FALSE, Configs(AccountA))

\* requests of one account handled one at a time, with the history of the
\* previous request kept
InitRepeat ==
    InitWith({1}, {"STEAM_0:1:0"}, {AccountA}, TRUE, FALSE,
             {[checks |-> c, authorizations |-> <<>>] :
                 c \in UNION {Prefixes(list) :
                                 list \in {l \in CheckLists :
                                              l[1].type = "vacBans"}}})

Next ==
    \/ \E s \in Slots, user \in Users :
          \E profile \in standings \cup {Unknown} :
              Request(s, user, profile)
    \/ \E s \in Slots, outcome \in {"ok", "rejected", "malformed"}, setOk \in BOOLEAN :
          DecisionReply(s, outcome, setOk)
    \/ \E s \in Slots : \E res \in SummaryResponses(Answer(reqs[s].steam64).summary) :
          SummaryReply(s, res)
    \/ \E s \in Slots : \E res \in GamesResponses(Answer(reqs[s].steam64).games) :
          GamesReply(s, res)
    \/ \E s \in Slots, setOk \in BOOLEAN :
          \E res \in BansResponses(Answer(reqs[s].steam64).bans) :
              BansReply(s, res, setOk)
    \/ \E s \in Slots, outcome \in {"ok", "rejected"}, warnOk \in BOOLEAN,
          setOk \in BOOLEAN : WarningReply(s, outcome, warnOk, setOk)
    \/ Tick

\* requests of one account handled one at a time, with the history of the
\* per-check cache entries kept
InitWarn ==
    InitWith({1}, {"STEAM_0:1:0"}, {AccountA}, FALSE, TRUE,
             {[checks |-> c, authorizations |-> <<>>] :
                 c \in UNION {Prefixes(list) : list \in CheckLists}})

\* two requests of one account under way at a time; the account is in good
\* standing or VAC banned
InitPair ==
    InitOf({1, 2}, [s \in Slots |-> {"STEAM_0:1:0"}], {AccountA}, FALSE, FALSE,
           {[checks |-> <<Deny("vacBans", "1h")>>, authorizations |-> <<>>]},
           {p \in Profiles(AccountA) : /\ p.summary.profilestate = 1
                                       /\ p.games.games # <<>>
                                       /\ ~p.bans.CommunityBanned
                                       /\ p.bans.NumberOfGameBans = 0})

\* a check that carries a `threshold` key
Threshold(check, n) ==
    [type |-> check.type, ignore |-> check.ignore,
     has |-> check.has \cup {"threshold"}, authorized |-> check.authorized,
     warnInterval |-> check.warnInterval, threshold |-> n]

\* requests of one account handled one at a time, under a denying gameBans
\* check configured with a threshold; the account has any number of game bans
\* up to MaxBans
InitBans ==
    InitOf({1}, [s \in Slots |-> {"STEAM_0:1:0"}], {AccountA}, FALSE, FALSE,
           {[checks |-> <<Threshold(Deny("gameBans", "1h"), n)>>,
             authorizations |-> <<>>] : n \in 0..MaxBans},
           {Profile(Summary(TRUE, AccountA, 1, 3), OwnedGames(6000, 0),
                    Bans(TRUE, AccountA, FALSE, c, FALSE, "none")) : c \in 0..MaxBans})

\* the VAC banned standing of an account
VacBanned(steam64) ==
    Profile(Summary(TRUE, steam64, 1, 3), OwnedGames(6000, 0),
            Bans(TRUE, steam64, TRUE, 0, FALSE, "none"))

\* requests of two VAC banned accounts, one of each under way at a time
InitBoth ==
    InitOf({1, 2}, <<{"STEAM_0:1:0"}, {"[U:1:2]"}>>, {AccountA, AccountB}, FALSE, FALSE,
           {[checks |-> <<Deny("vacBans", "1h")>>, authorizations |-> <<>>]},
           {VacBanned(AccountA), VacBanned(AccountB)})

Spec == Init /\ [][Next]_vars

SpecBoth == InitBoth /\ [][Next]_vars

SpecBans == InitBans /\ [][Next]_vars

SpecPair == InitPair /\ [][Next]_vars

SpecWarn == InitWarn /\ [][Next]_vars

SpecRepeat == InitRepeat /\ [][Next]_vars

\* the return of the call the request in slot s waits for
Reply(s) ==
    \/ \E outcome \in {"ok", "rejected", "malformed"}, setOk \in BOOLEAN :
          DecisionReply(s, outcome, setOk)
    \/ \E res \in SummaryResponses(Answer(reqs[s].steam64).summary) :
          SummaryReply(s, res)
    \/ \E res \in GamesResponses(Answer(reqs[s].steam64).games) :
          GamesReply(s, res)
    \/ \E setOk \in BOOLEAN :
          \E res \in BansResponses(Answer(reqs[s].steam64).bans) :
              BansReply(s, res, setOk)
    \/ \E outcome \in {"ok", "rejected"}, warnOk \in BOOLEAN, setOk \in BOOLEAN :
          WarningReply(s, outcome, warnOk, setOk)

InitLive ==
    InitWith({1}, {"", "STEAM_0:1:0"}, {AccountA}, FALSE, FALSE,
             {[checks |-> c, authorizations |-> <<>>] :
                 c \in UNION {Prefixes(list) :
                                 list \in {l \in CheckLists :
                                              l[1].type = "vacBans"}}})

\* every call to redis and to the Steam Web API returns or fails in the end
SpecLive == InitLive /\ [][Next]_vars /\ \A s \in Slots : WF_vars(Reply(s))

-----------------------------------------------------------------------------
(* Properties *)

\* the `user` values that are missing, unparseable or not valid
Malformed == {"", "not-a-steam-id", "STEAM_0:0:0"}

\* the 64-bit ids of the accounts that valid `user` values name
Accounts == {AccountA, AccountB}

Handled(s) == s \in slots /\ reqs[s].pc = "done"

\* the status that reports the decision `authorized`
StatusOf(authorized) == IF authorized THEN 200 ELSE 403

\* the player's override carries the key `key`
Overrides_(r, key) == r.playerAuthorization.found /\ Has(r.playerAuthorization.rec, key)

\* C1: a request whose identifier is missing, unparseable or not valid is
\* answered 403 at once, having read and written no cache key, called no
\* Steam API and sent no alert; and every cache key is built from the id of
\* a valid account.
C1_InvalidInput ==
    /\ \A s \in slots :
          (reqs[s].pc # "idle" /\ reqs[s].user \in Malformed) =>
              /\ reqs[s].pc = "done"
              /\ reqs[s].status = 403
              /\ reqs[s].reads = {} /\ reqs[s].writes = {}
              /\ reqs[s].api = {} /\ reqs[s].alerts = <<>>
    /\ \A k \in DOMAIN cache : k[2] \in Accounts

C1_Witness ==
    /\ Handled(1) /\ reqs[1].user = "STEAM_0:0:0" /\ reqs[1].status = 403
    /\ cache # <<>>

\* C2: when the decision-cache read returns an unexpired entry, the request is
\* answered with the cached boolean (200 for true, 403 for false), calls no
\* Steam API, sends no alert and leaves the cache as it is, whatever Steam
\* would answer now.
C2_CacheHit ==
    [][\A s \in slots :
          LET key == DecisionKey(reqs[s].steam64)
          IN  (/\ reqs[s].pc = "getDecision"
               /\ reqs'[s].pc # "getDecision"
               /\ reqs'[s].readFault = "ok"
               /\ key \in DOMAIN cache)
              => /\ reqs'[s].pc = "done"
                 /\ reqs'[s].path = "hit"
                 /\ reqs'[s].status = StatusOf(cache[key].val = "true")
                 /\ reqs'[s].api = {} /\ reqs'[s].alerts = <<>>
                 /\ reqs'[s].writes = {}
                 /\ cache' = cache]_vars

\* a cached authorization is served although Steam now reports a VAC ban that
\* the configured check would deny
C2_Witness ==
    /\ Handled(1) /\ reqs[1].path = "hit" /\ reqs[1].status = 200
    /\ steam[AccountA].bans.VACBanned
    /\ CHECKS[1] = Deny("vacBans", "1h") /\ AUTHORIZATIONS = <<>>

\* C3 as claimed: a player whose override carries `authorized` is always
\* answered with that value.
C3_OverrideAlways ==
    \A s \in slots :
        (Handled(s) /\ Overrides_(reqs[s], "authorized")) =>
            reqs[s].status = StatusOf(reqs[s].playerAuthorization.rec.authorized)

\* C3 as amended: a player whose override carries `authorized` is answered
\* with that value by every request that ends with a decision, whichever
\* checks are flagged and whatever the caches hold; the only other answer is
\* 500, given when a call of the evaluation threw, which takes the Steam
\* checks to be performed.
C3_OverrideDecides ==
    \A s \in slots :
        (Handled(s) /\ Overrides_(reqs[s], "authorized")) =>
            \/ reqs[s].status = StatusOf(reqs[s].playerAuthorization.rec.authorized)
            \/ /\ reqs[s].status = 500
               /\ reqs[s].path = "error"
               /\ PerformsChecks(reqs[s].playerAuthorization)

\* the override authorizes a player whom a denying check flags
C3_Witness ==
    /\ Handled(1) /\ reqs[1].path = "fresh" /\ reqs[1].status = 200
    /\ Overrides_(reqs[1], "authorized")
    /\ FlagsHas(reqs[1].flags, "vacBans")
    /\ CHECKS[1] = Deny("vacBans", "1h")
    /\ reqs[1].reads # {DecisionKey(AccountA)}

Fixed(r) == {j \in Triggered(r) : Has(CHECKS[j], "authorized")}

Last(S) == CHOOSE n \in S : \A m \in S : m <= n

\* C5: in a fresh evaluation of a player whose override carries no
\* `authorized`, when two or more applicable checks with a fixed outcome are
\* flagged, the decision is the outcome of the one declared last.
C5_LastFixedWins ==
    \A s \in slots :
        LET r == reqs[s]
        IN  (/\ Handled(s) /\ r.path = "fresh"
             /\ ~Overrides_(r, "authorized")
             /\ Cardinality(Fixed(r)) >= 2)
            => r.status = StatusOf(CHECKS[Last(Fixed(r))].authorized)

\* a later `authorized: true` check re-authorizes after a denying one
C5_Witness ==
    /\ Handled(1) /\ reqs[1].path = "fresh" /\ reqs[1].status = 200
    /\ ~Overrides_(reqs[1], "authorized")
    /\ Fixed(reqs[1]) = {1, 2}
    /\ ~CHECKS[1].authorized /\ CHECKS[2].authorized

\* the owned-games response shows that the game is not owned
NotOwned(gameResult) ==
    gameResult.present /\ (~gameResult.hasCount \/ gameResult.game_count = 0)

\* C6: in every fresh evaluation whose owned-games response shows the game
\* not owned (no games, or no game count), neither playtime check is flagged
\* and the ownership check is.
C6_OwnershipGating ==
    \A s \in slots :
        LET r == reqs[s]
        IN  (/\ Handled(s) /\ r.path = "fresh"
             /\ "GetOwnedGames" \in r.api
             /\ NotOwned(r.gameResult))
            => /\ ~FlagsHas(r.flags, "lowPlaytime")
               /\ ~FlagsHas(r.flags, "impossiblePlaytime")
               /\ FlagsHas(r.flags, "noOwnership")

\* C7: a fresh evaluation of a VAC-banned account, with an applicable denying
\* vacBans check, no override `authorized`, no later flagged check with a
\* fixed outcome and no cache entry for the vacBans warning, answers 403 and
\* calls the notifier once with the VAC-ban detail among its details.
C7_VacDenied ==
    \A s \in slots :
        LET r == reqs[s]
        IN  (/\ Handled(s) /\ r.path = "fresh"
             /\ FlagsHas(r.flags, "vacBans")
             /\ ~Overrides_(r, "authorized")
             /\ Fixed(r) # {}
             /\ CHECKS[Last(Fixed(r))].type = "vacBans"
             /\ ~CHECKS[Last(Fixed(r))].authorized
             /\ "vacBans" \notin r.suppressed)
            => /\ r.status = 403
               /\ Len(r.alerts) = 1
               /\ r.alerts[1].steamID = r.steam64
               /\ \E n \in 1..Len(r.alerts[1].reason) :
                      r.alerts[1].reason[n] = FlagsGet(r.flags, "vacBans").detail

C7_Witness ==
    /\ Handled(1) /\ reqs[1].path = "fresh" /\ reqs[1].status = 403
    /\ steam[AccountA].bans.VACBanned
    /\ CHECKS = <<Deny("vacBans", "1h")>>
    /\ Len(reqs[1].alerts) = 1
    /\ reqs[1].alerts[1].reason = <<FlagsGet(reqs[1].flags, "vacBans").detail>>

\* lines 238-258 and 275-277 as a function of the list of checks: the
\* aggregate after the checks from index j on, and the decision
RECURSIVE Aggregate(_, _, _, _, _)
Aggregate(checks, pa, flags, j, authorized) ==
    IF j > Len(checks) THEN authorized
    ELSE Aggregate(checks, pa, flags, j + 1,
                   IF /\ ~Skipped(checks[j], pa)
                      /\ FlagsHas(flags, checks[j].type)
                      /\ Has(checks[j], "authorized")
                   THEN checks[j].authorized ELSE authorized)

Decision(checks, pa, flags) ==
    IF pa.found /\ Has(pa.rec, "authorized") THEN pa.rec.authorized
    ELSE Aggregate(checks, pa, flags, 1, TRUE)

\* the list of checks with the j-th left out
Without(checks, j) == SubSeq(checks, 1, j - 1) \o SubSeq(checks, j + 1, Len(checks))

\* C8: a flagged applicable check without a fixed outcome leaves the decision
\* what it is without that check in the configuration; its detail is in the
\* alert of the first fresh evaluation that finds it flagged, and in no alert
\* of a fresh evaluation that follows within its warn interval.
C8_FlagOnly ==
    \A s \in slots :
        LET r == reqs[s]
        IN  (Handled(s) /\ r.path = "fresh") =>
                \A j \in Triggered(r) \ Fixed(r) :
                    LET type == CHECKS[j].type
                        detail == FlagsGet(r.flags, type).detail
                    IN  /\ r.status = StatusOf(Decision(Without(CHECKS, j),
                                                        r.playerAuthorization, r.flags))
                        /\ type \in r.first => detail \in Alerted(r)
                        /\ type \in r.within => detail \notin Alerted(r)

\* the three calls to the Steam Web API
SteamCalls == {"GetPlayerSummaries", "GetOwnedGames", "GetPlayerBans"}

\* C9: a request of a player whose override sets performChecks to false calls
\* no Steam API; unless served from the decision cache it completes as a
\* fresh evaluation with no check flagged, reads and writes no cache key but
\* the decision key, sends no alert, and answers with the override's
\* `authorized` when it has one and 200 when it has none.
C9_ChecksDisabled ==
    \A s \in slots :
        LET r == reqs[s]
            pa == r.playerAuthorization
        IN  (/\ r.pc # "idle"
             /\ Overrides_(r, "performChecks") /\ ~pa.rec.performChecks)
            => /\ r.api = {}
               /\ r.pc \in {"getDecision", "done"}
               /\ (r.pc = "done" /\ r.path # "hit") =>
                      /\ r.path = "fresh"
                      /\ r.flags = {} /\ Triggered(r) = {}
                      /\ r.reads = {DecisionKey(r.steam64)}
                      /\ r.writes = {DecisionKey(r.steam64)}
                      /\ r.alerts = <<>>
                      /\ r.status = IF Has(pa.rec, "authorized")
                                    THEN StatusOf(pa.rec.authorized) ELSE 200

\* a VAC-banned player whose checks are disabled passes the denying check
C9_Witness ==
    /\ Handled(1) /\ reqs[1].path = "fresh" /\ reqs[1].status = 200
    /\ Overrides_(reqs[1], "performChecks")
    /\ ~reqs[1].playerAuthorization.rec.performChecks
    /\ ~Overrides_(reqs[1], "authorized")
    /\ steam[AccountA].bans.VACBanned
    /\ \E j \in 1..Len(CHECKS) : CHECKS[j].type = "vacBans" /\ ~CHECKS[j].authorized

\* C10: a cache read that fails or returns a malformed payload, for the
\* decision key or for a check's key, is taken as a miss: the request is not
\* served from the cache and is never answered 500 because of the cache.
C10_CacheReadNeverFatal ==
    \A s \in slots :
        LET r == reqs[s]
        IN  (Handled(s) /\ r.readFault # "ok")
            => /\ r.path # "hit"
               /\ r.error # "cache"
               /\ r.status = 500 => r.error \in SteamCalls

\* one of the answers the request got from the Steam Web API carries no
\* usable data, or is the record of another account
Unusable(r) ==
    /\ r.pc = "done"
    /\ \/ /\ "GetPlayerSummaries" \in r.api
          /\ ~r.summaryResult.usable \/ r.summaryResult.steamid # r.steam64
       \/ /\ "GetOwnedGames" \in r.api
          /\ ~r.gameResult.present
       \/ /\ "GetPlayerBans" \in r.api
          /\ ~r.bansResult.usable \/ r.bansResult.SteamId # r.steam64

\* C11: a request one of whose Steam answers is unusable or is another
\* account's is answered 500, has written no cache key and sent no alert; the
\* step that ends it leaves the cache as it is, and after a decision-cache
\* miss there is no decision entry for the following request to be served.
C11_ApiFailure ==
    [][\A s \in slots :
          LET r == reqs'[s]
          IN  Unusable(r) =>
                  /\ r.status = 500
                  /\ r.writes = {} /\ r.alerts = <<>>
                  /\ reqs[s].pc # "done" => cache' = cache
                  /\ r.readFault = "ok" => DecisionKey(r.steam64) \notin DOMAIN cache']_vars

\* the bans of another account come back after the playtime was flagged
C11_Witness ==
    /\ Handled(1) /\ reqs[1].status = 500
    /\ reqs[1].api = SteamCalls
    /\ reqs[1].bansResult.usable /\ reqs[1].bansResult.SteamId = OtherAccount
    /\ FlagsHas(reqs[1].flags, "lowPlaytime")
    /\ \E j \in 1..Len(CHECKS) : CHECKS[j].type = "lowPlaytime"

\* the answers of the four outcome classes, by the path the handler took
StatusesOf(path) ==
    CASE path = "invalid" -> {403}
      [] path = "hit"     -> {200, 403}
      [] path = "fresh"   -> {200, 403}
      [] path = "error"   -> {500}
      [] OTHER            -> {}

\* C12: a request under way has sent no status; a request that has ended
\* has sent exactly one, of the class of the path it took; and a request
\* whose calls all return or fail does end.
C12_OneResponse ==
    /\ [](\A s \in slots :
             /\ reqs[s].sent <= 1
             /\ reqs[s].pc = "done" <=> reqs[s].sent = 1
             /\ reqs[s].pc = "done" => reqs[s].status \in StatusesOf(reqs[s].path)
             /\ reqs[s].pc # "done" => reqs[s].status = 0)
    /\ \A s \in Slots : (reqs[s].pc \notin {"idle", "done"}) ~> (reqs[s].pc = "done")

\* an evaluation that went through all five calls has been answered
C12_Witness ==
    /\ Handled(1) /\ reqs[1].sent = 1 /\ reqs[1].path = "fresh"
    /\ reqs[1].api = SteamCalls
    /\ Cardinality(reqs[1].reads) = 2

\* lines 129-235: the flags as a function of the answers the request got
FlagsOf(r) ==
    IF PerformsChecks(r.playerAuthorization)
    THEN BansFlags(GamesFlags(SummaryFlags({}, r.summaryResult), r.gameResult,
                              HOUR_THRESHOLD),
                   r.bansResult)
    ELSE {}

\* C13: the status of a fresh evaluation is a function of the configuration
\* and of the Steam answers alone: it is the same whether or not the cache
\* took the check entries and the decision entry the request wrote.
C13_SideEffects ==
    \A s \in slots :
        LET r == reqs[s]
        IN  (Handled(s) /\ r.path = "fresh") =>
                r.status = StatusOf(Decision(CHECKS, r.playerAuthorization, FlagsOf(r)))

\* a denial whose check entry and decision entry were both lost
C13_Witness ==
    /\ Handled(1) /\ reqs[1].path = "fresh" /\ reqs[1].status = 403
    /\ now = 0
    /\ reqs[1].writes = {DecisionKey(AccountA), RuleKey(AccountA, "vacBans")}
    /\ cache = <<>>
    /\ Len(reqs[1].alerts) = 1

\* the checks of CHECKS that are configured without a warn interval
NoInterval == {j \in 1..Len(CHECKS) : ~Has(CHECKS[j], "warnInterval")}

\* C14: no cache entry is ever written for a check configured without a warn
\* interval, and every fresh evaluation that finds such a check flagged has
\* its detail in an alert; the entry of a check with warn interval 'never'
\* has no expiry, and that of a check with a duration expires.
C14_NoIntervalNoEntry ==
    /\ \A s \in slots :
          LET r == reqs[s]
          IN  \A j \in NoInterval :
                  /\ RuleKey(r.steam64, CHECKS[j].type) \notin r.writes
                  /\ (Handled(s) /\ r.path = "fresh" /\ j \in Triggered(r)) =>
                         FlagsGet(r.flags, CHECKS[j].type).detail \in Alerted(r)
    /\ \A k \in DOMAIN cache :
          Len(k) = 3 =>
              \A j \in 1..Len(CHECKS) :
                  (CHECKS[j].type = k[3] /\ Has(CHECKS[j], "warnInterval")) =>
                      (cache[k].expires <=> CHECKS[j].warnInterval # "never")

\* C15: every call of the notifier is given the decision the request is
\* answered with: its `denied` argument is true exactly when the answer is 403.
C15_DeniedArgument ==
    \A s \in slots :
        LET r == reqs[s]
        IN  Handled(s) =>
                \A a \in 1..Len(r.alerts) :
                    /\ r.alerts[a].steamID = r.steam64
                    /\ r.alerts[a].denied <=> r.status = 403

\* the flagged applicable checks whose cache entry the request found missing
Unsuppressed(r) == {j \in Triggered(r) : CHECKS[j].type \notin r.suppressed}

\* C16 as claimed: every fresh evaluation answered 403 calls the notifier,
\* and so does every one that finds a check flagged that has no cache entry.
C16_AlertOnDenial ==
    \A s \in slots :
        LET r == reqs[s]
        IN  (Handled(s) /\ r.path = "fresh") =>
                /\ r.status = 403 => r.alerts # <<>>
                /\ Unsuppressed(r) # {} => r.alerts # <<>>

\* C16 as amended: a fresh evaluation calls the notifier exactly when it finds
\* a check flagged that has no cache entry, whatever its answer.
C16_AlertOnNews ==
    \A s \in slots :
        LET r == reqs[s]
        IN  (Handled(s) /\ r.path = "fresh") =>
                (r.alerts # <<>> <=> Unsuppressed(r) # {})

\* a repeated denial within the warn interval is not reported
C16_Witness ==
    /\ Handled(1) /\ reqs[1].path = "fresh" /\ reqs[1].status = 403
    /\ reqs[1].alerts = <<>>
    /\ reqs[1].suppressed = {"vacBans"}
    /\ Triggered(reqs[1]) # {}

\* the player's override lists the check's type under `key`
Lists(pa, key, type) == pa.found /\ Has(pa.rec, key) /\ type \in pa.rec[key]

\* the check is ignored by default and not forced for the player, or is not
\* ignored by default and is among the player's ignored checks
Exempt(check, pa) ==
    \/ check.ignore /\ ~Lists(pa, "forceChecks", check.type)
    \/ ~check.ignore /\ Lists(pa, "ignoreChecks", check.type)

\* the details the request has collected
Details(r) == {r.details[n] : n \in 1..Len(r.details)}

\* C17: a check that is exempt for the player has its cache key neither read
\* nor written, adds no detail and leaves the decision what it is without the
\* check, whatever is flagged; a check ignored by default that the player's
\* forceChecks lists is treated as a check that is not ignored by default.
C17_SkippedChecks ==
    \A s \in slots :
        LET r == reqs[s]
            pa == r.playerAuthorization
        IN  \A j \in 1..Len(CHECKS) :
                LET check == CHECKS[j]
                    key == RuleKey(r.steam64, check.type)
                IN  /\ Exempt(check, pa) =>
                          /\ key \notin r.reads /\ key \notin r.writes
                          /\ FlagsHas(r.flags, check.type) =>
                                 /\ FlagsGet(r.flags, check.type).detail \notin Details(r)
                                 /\ FlagsGet(r.flags, check.type).detail \notin Alerted(r)
                          /\ (Handled(s) /\ r.path = "fresh") =>
                                 r.status = StatusOf(Decision(Without(CHECKS, j), pa, r.flags))
                    /\ (/\ check.ignore /\ Lists(pa, "forceChecks", check.type)
                        /\ Handled(s) /\ r.path = "fresh") =>
                          /\ FlagsHas(r.flags, check.type) <=> key \in r.reads
                          /\ r.status = StatusOf(Decision([CHECKS EXCEPT ![j].ignore = FALSE],
                                                          pa, r.flags))

\* a VAC-banned player whose override ignores the denying vacBans check
C17_Witness ==
    /\ Handled(1) /\ reqs[1].path = "fresh" /\ reqs[1].status = 200
    /\ FlagsHas(reqs[1].flags, "vacBans")
    /\ CHECKS[1] = Deny("vacBans", "1h")
    /\ Exempt(CHECKS[1], reqs[1].playerAuthorization)
    /\ RuleKey(AccountA, "vacBans") \notin DOMAIN cache

\* C18: of two fresh evaluations of an account, one after the other, with the
\* same Steam answers, configuration and override, the second is answered
\* like the first whichever check entries it finds in the cache.
C18_SuppressionKeepsDecision ==
    \A s \in slots :
        LET r == reqs[s]
        IN  (/\ Handled(s) /\ r.path = "fresh"
             /\ prev.exists /\ prev.path = "fresh"
             /\ prev.steam64 = r.steam64
             /\ prev.calm \in {"all", "steam"})
            => r.status = prev.status

\* the second evaluation finds an entry the first did not, and alerts no
\* detail of that check
C18_Witness ==
    /\ Handled(1) /\ reqs[1].path = "fresh"
    /\ prev.exists /\ prev.path = "fresh" /\ prev.calm = "steam"
    /\ prev.alerts = 1
    /\ reqs[1].suppressed = {"communityBan"}
    /\ Cardinality(Triggered(reqs[1])) = 2
    /\ reqs[1].status = 200

\* the details of the checks of index set S, in the order of CHECKS
RECURSIVE DetailsIn(_, _)
DetailsIn(r, S) ==
    IF S = {} THEN <<>>
    ELSE LET j == CHOOSE n \in S : \A m \in S : n <= m
         IN  <<FlagsGet(r.flags, CHECKS[j].type).detail>> \o DetailsIn(r, S \ {j})

\* C19: a fresh evaluation calls the notifier once when some flagged
\* applicable check has no cache entry and not at all otherwise; the details
\* it passes are those of exactly these checks, in the order of CHECKS.
C19_AlertDetails ==
    \A s \in slots :
        LET r == reqs[s]
        IN  (Handled(s) /\ r.path = "fresh") =>
                IF Unsuppressed(r) = {}
                THEN r.alerts = <<>>
                ELSE /\ Len(r.alerts) = 1
                     /\ r.alerts[1].steamID = r.steam64
                     /\ r.alerts[1].reason = DetailsIn(r, Unsuppressed(r))

\* one alert carries the details of two checks
C19_Witness ==
    /\ Handled(1) /\ reqs[1].path = "fresh"
    /\ Len(reqs[1].alerts) = 1
    /\ Len(reqs[1].alerts[1].reason) = 2
    /\ reqs[1].alerts[1].reason[1] # reqs[1].alerts[1].reason[2]

\* C20: for requests of one account handled one at a time, a fresh evaluation
\* does not alert the detail of a check that was alerted less than its warn
\* interval ago, nor that of a check with warn interval 'never' whose entry
\* exists; and it does alert the detail of a flagged check whose last alert
\* is at least its finite warn interval old.
C20_WarnInterval ==
    \A s \in slots :
        LET r == reqs[s]
        IN  (Handled(s) /\ r.path = "fresh") =>
                \A j \in Triggered(r) :
                    LET type == CHECKS[j].type
                        detail == FlagsGet(r.flags, type).detail
                        finite == CHECKS[j].warnInterval # "never"
                    IN  Has(CHECKS[j], "warnInterval") =>
                            /\ (finite /\ type \in r.recent) => detail \notin Alerted(r)
                            /\ (~finite /\ type \in r.suppressed) => detail \notin Alerted(r)
                            /\ (finite /\ type \notin r.first /\ type \notin r.recent)
                                   => detail \in Alerted(r)

\* C21: when two requests for one account were under way together and both
\* completed a fresh evaluation, the decision entry, while it lives, holds
\* the decision of the request whose write the cache took last.  (That both
\* can miss the same per-check entry and both alert the same detail is the
\* state of C21_Witness.)
C21_LastWriterWins ==
    \A s \in slots, t \in slots :
        (/\ s # t /\ Handled(s) /\ Handled(t)
         /\ reqs[s].path = "fresh" /\ reqs[t].path = "fresh"
         /\ reqs[s].steam64 = reqs[t].steam64
         /\ reqs[s].last
         /\ DecisionKey(reqs[s].steam64) \in DOMAIN cache)
        => cache[DecisionKey(reqs[s].steam64)].val = RedisString(reqs[s].status = 200)

\* both requests missed the decision entry, the second missed the per-check
\* entry the first was writing, and both alerted the same detail within the
\* hour; the decision entry is the one the last writer wrote
C21_Witness ==
    /\ Handled(1) /\ Handled(2)
    /\ reqs[1].path = "fresh" /\ reqs[2].path = "fresh"
    /\ reqs[1].steam64 = AccountA /\ reqs[2].steam64 = AccountA
    /\ reqs[1].readFault = "ok" /\ reqs[2].readFault = "ok"
    /\ reqs[2].raced /\ reqs[2].last
    /\ reqs[1].suppressed = {} /\ reqs[2].suppressed = {}
    /\ Len(reqs[1].alerts) = 1 /\ Len(reqs[2].alerts) = 1
    /\ Alerted(reqs[1]) = Alerted(reqs[2])
    /\ RuleKey(AccountA, "vacBans") \in DOMAIN cache
    /\ cache[RuleKey(AccountA, "vacBans")].exp = now + 1
    /\ DecisionKey(AccountA) \in DOMAIN cache
    /\ cache[DecisionKey(AccountA)].val = "false"

\* the request in slot s ends in this step
Ends(s) == reqs[s].pc # "done" /\ reqs'[s].pc = "done"

\* C22: a decision entry appears or changes only in the step that ends a
\* fresh evaluation of its account, and is then the boolean of that request's
\* response with the configured cache time to live; a request that ends as a
\* cache hit, as invalid input or as a failure has written no decision entry;
\* and the entry a cache hit is served from was written less than the cache
\* time ago and carries the served decision.
C22_DecisionWrite ==
    [][/\ \A k \in DOMAIN cache' :
              (Len(k) = 2 /\ (k \notin DOMAIN cache \/ cache'[k] # cache[k]))
              => \E s \in slots :
                    /\ Ends(s) /\ reqs'[s].path = "fresh"
                    /\ k = DecisionKey(reqs'[s].steam64)
                    /\ cache'[k] = [val |-> RedisString(reqs'[s].status = 200),
                                    expires |-> TRUE,
                                    exp |-> now + AUTHORIZATION_CACHE_TIME]
       /\ \A s \in slots :
              /\ (Ends(s) /\ reqs'[s].path # "fresh")
                     => \A k \in reqs'[s].writes : Len(k) # 2
              /\ (Ends(s) /\ reqs'[s].path = "hit")
                     => /\ reqs[s].got.hit /\ reqs[s].got.expires
                        /\ reqs[s].got.exp > now
                        /\ reqs[s].got.exp - AUTHORIZATION_CACHE_TIME <= now
                        /\ reqs'[s].status = StatusOf(reqs[s].got.val = "true")]_vars

\* a denial is served from the entry that a fresh evaluation wrote within the
\* hour, an hour after the service started
C22_Witness ==
    /\ Handled(1) /\ reqs[1].path = "hit" /\ reqs[1].status = 403
    /\ now = 1
    /\ DecisionKey(AccountA) \in DOMAIN cache
    /\ cache[DecisionKey(AccountA)] = [val |-> "false", expires |-> TRUE, exp |-> 2]

\* the check triggers on what Steam answered: a gameBans check that carries a
\* threshold when the number of game bans is above it, any other check when
\* its flag is set
Triggers(r, check) ==
    IF check.type = "gameBans" /\ Has(check, "threshold")
    THEN /\ r.bansResult.usable
         /\ r.bansResult.NumberOfGameBans > check.threshold
    ELSE FlagsHas(r.flags, check.type)

\* the checks with a fixed outcome that are not skipped for the request's
\* player and trigger
FixedTriggers(r) ==
    {j \in 1..Len(CHECKS) : /\ ~Skipped(CHECKS[j], r.playerAuthorization)
                            /\ Has(CHECKS[j], "authorized")
                            /\ Triggers(r, CHECKS[j])}

\* C23: a fresh evaluation answers 403 only if the override's `authorized` is
\* false, or there is no override `authorized` and the last declared
\* applicable triggering check with a fixed outcome has outcome false; when
\* no such check triggers and there is no override `authorized`, it answers
\* 200.
C23_NoSpuriousDenial ==
    \A s \in slots :
        LET r == reqs[s]
            fixed == FixedTriggers(r)
        IN  (Handled(s) /\ r.path = "fresh") =>
                /\ r.status = 403 =>
                       \/ /\ Overrides_(r, "authorized")
                          /\ ~r.playerAuthorization.rec.authorized
                       \/ /\ ~Overrides_(r, "authorized")
                          /\ fixed # {}
                          /\ ~CHECKS[Last(fixed)].authorized
                /\ (fixed = {} /\ ~Overrides_(r, "authorized")) => r.status = 200

\* C24: once the bans of the account are in, a gameBans check configured with
\* a threshold is flagged exactly when the account's number of game bans is
\* above that threshold.
C24_GameBansThreshold ==
    \A s \in slots :
        LET r == reqs[s]
        IN  (r.bansResult.usable /\ r.bansResult.SteamId = r.steam64) =>
                \A j \in 1..Len(CHECKS) :
                    (CHECKS[j].type = "gameBans" /\ Has(CHECKS[j], "threshold"))
                    => (FlagsHas(r.flags, "gameBans")
                           <=> r.bansResult.NumberOfGameBans > CHECKS[j].threshold)

\* C25: a step of the handler for one account (any step but the passing of
\* time) moves only the request that takes it; the keys that request has read
\* and written all name its account; and the step leaves every cache entry
\* and every Steam answer of any other account as it was.  So no step taken
\* for account B changes anything a request for account A reads or is.
C25_AccountIsolation ==
    [][now' = now =>
          \A s \in slots :
              reqs'[s] # reqs[s] =>
                  LET a == reqs'[s].steam64
                  IN  /\ \A t \in slots \ {s} : reqs'[t] = reqs[t]
                      /\ \A k \in reqs'[s].reads \cup reqs'[s].writes : k[2] = a
                      /\ \A k \in DOMAIN cache \cup DOMAIN cache' :
                             k[2] # a => /\ k \in DOMAIN cache
                                         /\ k \in DOMAIN cache'
                                         /\ cache'[k] = cache[k]
                      /\ \A b \in DOMAIN steam : b # a => steam'[b] = steam[b]]_vars

\* the request for account A has been denied and alerted and its two entries
\* are in the cache; the request for account B, under way, has missed both of
\* its own
C25_Witness ==
    /\ Handled(1) /\ reqs[1].steam64 = AccountA
    /\ reqs[1].path = "fresh" /\ reqs[1].status = 403 /\ Len(reqs[1].alerts) = 1
    /\ DOMAIN cache = {DecisionKey(AccountA), RuleKey(AccountA, "vacBans")}
    /\ reqs[2].steam64 = AccountB /\ reqs[2].pc = "getWarning"
    /\ reqs[2].reads = {DecisionKey(AccountB), RuleKey(AccountB, "vacBans")}
    /\ ~reqs[2].got.hit

\* C26: a request that has ended and has written the per-check entry of a
\* check has called the notifier with that check's detail.
C26_NoAlertLost ==
    \A s \in slots :
        LET r == reqs[s]
        IN  Handled(s) =>
                \A j \in 1..Len(CHECKS) :
                    RuleKey(r.steam64, CHECKS[j].type) \in r.writes
                    => FlagsGet(r.flags, CHECKS[j].type).detail \in Alerted(r)

====
